---- MODULE Spec2Model ----
(***************************************************************************)
(* Helm extensions controller of k0s (package controller):                *)
(*   - ChartReconciler.Reconcile / uninstall / updateOrInstallChart       *)
(*   - ExtensionsController.Run (CRD readiness gate, watch registration)  *)
(*   - ExtensionsController.Reconcile / addOpenEBSHelmExtension /         *)
(*     reconcileHelmExtensions (repositories, then chart manifests)       *)
(* Replicas of the controller share one record store (the API server),    *)
(* one package manager (helm) and one leader elector.                     *)
(***************************************************************************)
EXTENDS Integers, Sequences, FiniteSets, TLC

\* ------------------------------------------------------------------ bounds
\* number of reconcile attempts the dispatch layer delivers in one run; each
\* attempt reads the wall clock once, so this is also the last timestamp
MaxTime == 2
\* number of writes other clients (synchronizer, kubectl) make to the store
MaxEnv == 1

\* ------------------------------------------------------------- value sets
Replicas == {"r1", "r2"}
NoLeader == "none"
Keys == {"k0s-addon-chart-foo", "k0s-addon-chart-bar"}

finalizerName == "helm.k0sproject.io/uninstall-helm-release"

\* an argument position the call does not have
NA == "n/a"

\* the release objects the package manager can hand back (release.Release):
\* name, chart metadata version, chart app version, revision, namespace.
\* One repeats what the manifest of chart foo asks for, the other differs from
\* it in every field a spec can state.
Releases ==
    {[name |-> "foo", version |-> "1.0.0", appVersion |-> "app-1",
      revision |-> 1, namespace |-> "ns1"],
     [name |-> "foo-1641000000", version |-> "2.0.0", appVersion |-> "app-2",
      revision |-> 2, namespace |-> "ns2"]}

\* ------------------------------------------------------------ chart record
EmptyStatus ==
    [releaseName |-> "", version |-> "", appVersion |-> "", updated |-> 0,
     revision |-> 0, namespace |-> "", error |-> ""]

EmptySpec == [chartName |-> "", version |-> "", namespace |-> "", values |-> ""]

\* the zero value of v1beta1.Chart (var chartInstance v1beta1.Chart), also the
\* slot of a key the store holds no object for
ZeroChart ==
    [exists |-> FALSE, deleting |-> FALSE, finalizers |-> {}, rv |-> 0,
     spec |-> EmptySpec, status |-> EmptyStatus]

\* the chart a key's manifest is rendered for
ChartNameOf(k) == IF k = "k0s-addon-chart-foo" THEN "repo/foo" ELSE "repo/bar"

\* the desired specs the synchronizer writes for a key: the one the cluster
\* configuration starts with, and the one a changed configuration asks for
FirstSpec(k) ==
    [chartName |-> ChartNameOf(k), version |-> "1.0.0", namespace |-> "ns1",
     values |-> ""]
SecondSpec(k) ==
    [chartName |-> ChartNameOf(k), version |-> "2.0.0", namespace |-> "ns1",
     values |-> "a: 1"]
SpecsOf(k) == {FirstSpec(k), SecondSpec(k)}

\* the object that applying the manifest rendered from chartCrdTemplate creates
chartCrdTemplate(k, sp) ==
    [exists |-> TRUE, deleting |-> FALSE, finalizers |-> {finalizerName}, rv |-> 1,
     spec |-> sp, status |-> EmptyStatus]

\* ChartSpec.YamlValues(): the values text parsed into a map
YamlValues(text) == IF text = "" THEN <<>> ELSE [a |-> 1]

VARIABLES
    leader,      \* the replica the leader elector names, or NoLeader
    records,     \* the record store: key -> chart object
    now,         \* the wall clock
    envSteps,    \* writes made by other clients so far
    pc,          \* per replica: where its worker is inside Reconcile
    req,         \* per replica: the key of the request being reconciled
    chart,       \* per replica: chartInstance, the worker's copy of the record
    seen,        \* per replica: the record as client.Get returned it
    helmResult,  \* per replica: how this attempt's package-manager call ended
    sawLeader,   \* per replica: what IsLeader() answered in this attempt
    lostLead,    \* per replica: leadership moved away during this attempt
    rel,         \* per replica: the release the package manager returned
    calls,       \* per replica: package-manager calls made in this attempt
    writes,      \* per replica: store writes made in this attempt
    result,      \* per replica: what the last attempt returned
    installs,    \* per key: InstallChart calls that returned a release so far
    queue,       \* per replica: keys its dispatch layer has waiting for a worker
    runPc,       \* ExtensionsController.Run: where it is
    n,           \* Run: retry.Do's attempt counter
    failures,    \* Run: kind resolutions that failed so far
    resolved,    \* Run: a kind resolution succeeded
    ctxDone,     \* Run: the governing context is cancelled
    cancelAt,    \* Run: where Run was when the context was cancelled
    crdReady,    \* the Chart CRD is registered with the API server
    watches,     \* Run: watches registered for Chart records
    mgrStarted,  \* Run: the manager's working loop was started
    runResult,   \* Run: what it returned
    declared,      \* the configuration as the operator wrote it
    clusterConfig, \* the cluster configuration object the caller hands to Reconcile
    helmSettings,  \* ExtensionsController.Reconcile: the spec being synchronized
    syncPc,        \* ExtensionsController.Reconcile: where it is
    ri,            \* position of the repository loop
    ci,            \* position of the chart loop
    buf,           \* the manifest rendered for the current chart
    repoCalls,     \* repositories added in this pass, in call order
    renders,       \* charts whose manifest this pass began to render
    saveCalls,     \* Save calls that succeeded in this pass, in call order
    repoStore,     \* repositories the package manager knows
    manifests,     \* the files the manifest saver holds
    passes,        \* Reconcile calls so far
    syncResult     \* what the last Reconcile call returned

storeVars == <<records, now, envSteps>>

workerVars == <<pc, req, chart, seen, helmResult, sawLeader, lostLead, rel, calls,
                writes, result, installs>>

runVars == <<runPc, n, failures, resolved, ctxDone, cancelAt, crdReady, watches,
             mgrStarted, runResult>>

syncVars == <<declared, clusterConfig, helmSettings, syncPc, ri, ci, buf, repoCalls, renders,
              saveCalls, repoStore, manifests, passes, syncResult>>

vars == <<leader, queue, storeVars, workerVars, runVars, syncVars>>

NoRelease == [name |-> "", version |-> "", appVersion |-> "", revision |-> 0,
              namespace |-> ""]

\* reconcile.Result{} / reconcile.Result{Requeue: true} and the error
Returned(isErr, requeue, why) == [err |-> isErr, requeue |-> requeue, why |-> why]
NotReturned == Returned(FALSE, FALSE, "running")
NeverRan == Returned(FALSE, FALSE, "never ran")

\* ------------------------------------------- desired-extensions configuration
\* number of times the caller runs ExtensionsController.Reconcile
MaxSync == 2
\* longest repository list and longest chart list a configuration declares
MaxDeclared == 2

\* clusterConfig.Spec.Extensions.Storage.Type
OpenEBSLocal == "openebs_local_storage"
StorageTypes == {OpenEBSLocal, "external_storage"}

\* k0sAPI.Repository entries a configuration can declare
DeclaredRepos ==
    {[name |-> "stable", url |-> "https://charts.example/stable"],
     [name |-> "extra", url |-> "https://charts.example/extra"]}

\* k0sAPI.Chart entries a configuration can declare
DeclaredCharts ==
    {[name |-> "foo", chartName |-> "repo/foo", version |-> "1.0.0",
      targetNS |-> "ns1", values |-> ""],
     [name |-> "bar", chartName |-> "repo/bar", version |-> "2.0.0",
      targetNS |-> "ns2", values |-> "a: 1"]}

\* the entries addOpenEBSHelmExtension appends
OpenEBSRepo == [name |-> "openebs-internal", url |-> "constant.OpenEBSRepository"]
OpenEBSChart ==
    [name |-> "openebs", chartName |-> "openebs-internal/openebs",
     version |-> "constant.OpenEBSVersion", targetNS |-> "openebs", values |-> ""]

\* sequences over S of length up to len
RECURSIVE SeqsUpTo(_, _)
SeqsUpTo(S, len) ==
    IF len = 0 THEN {<<>>}
    ELSE LET shorter == SeqsUpTo(S, len - 1)
         IN  shorter \cup {Append(q, x) : q \in shorter, x \in S}

\* *k0sAPI.HelmExtensions: the nil pointer, or a pointer to the two lists
NilHelm == [nil |-> TRUE, repos |-> <<>>, charts |-> <<>>]
HelmExtensions(repos, charts) == [nil |-> FALSE, repos |-> repos, charts |-> charts]

\* the configurations a caller can hand to Reconcile
ClusterConfigs ==
    {[storage |-> st, helm |-> h] :
        st \in StorageTypes,
        h \in {NilHelm} \cup
              {HelmExtensions(rs, cs) :
                  rs \in SeqsUpTo(DeclaredRepos, MaxDeclared),
                  cs \in SeqsUpTo(DeclaredCharts, MaxDeclared)}}

\* bytes.NewBuffer([]byte{})
EmptyBuf == [file |-> "", content |-> ZeroChart]

\* what a Reconcile call returned: nil, or an error and the identities its
\* message carries
SyncReturned(isErr, kind, names) == [err |-> isErr, kind |-> kind, names |-> names]

\* the synchronizer has not been run
SyncIdle(cfg) ==
    /\ declared = cfg
    /\ clusterConfig = cfg
    /\ helmSettings = NilHelm
    /\ syncPc = "idle"
    /\ ri = 1
    /\ ci = 1
    /\ buf = EmptyBuf
    /\ repoCalls = <<>>
    /\ renders = <<>>
    /\ saveCalls = <<>>
    /\ repoStore = {}
    /\ manifests = {}
    /\ passes = 0
    /\ syncResult = SyncReturned(FALSE, "never ran", {})

\* ------------------------------------------------------------------- Init
\* a Chart object another client created itself, with no finalizers in its
\* metadata
CreatedByHand(k, sp) == [chartCrdTemplate(k, sp) EXCEPT !.finalizers = {}]

\* what the store holds for a key when the controllers start: nothing, the
\* object the manifest created, whose status an earlier run may have left an
\* error in, or an object created by hand
InitRecords(k) ==
    {ZeroChart, CreatedByHand(k, FirstSpec(k))}
    \cup {[chartCrdTemplate(k, FirstSpec(k)) EXCEPT !.status.error = e] :
            e \in {"", "install failed"}}

WorkersIdle ==
    /\ pc = [r \in Replicas |-> "idle"]
    /\ req = [r \in Replicas |-> CHOOSE k \in Keys : TRUE]
    /\ chart = [r \in Replicas |-> ZeroChart]
    /\ seen = [r \in Replicas |-> ZeroChart]
    /\ helmResult = [r \in Replicas |-> "none"]
    /\ sawLeader = [r \in Replicas |-> FALSE]
    /\ lostLead = [r \in Replicas |-> FALSE]
    /\ rel = [r \in Replicas |-> NoRelease]
    /\ calls = [r \in Replicas |-> <<>>]
    /\ writes = [r \in Replicas |-> <<>>]
    /\ result = [r \in Replicas |-> NeverRan]
    /\ installs = [k \in Keys |-> 0]
    /\ queue = [r \in Replicas |-> {k \in Keys : records[k].exists}]

\* Run has returned nil: the CRD was found at the first resolution, the watch is
\* registered and the manager runs
RunHasStarted ==
    /\ runPc = "returned"
    /\ n = 0
    /\ failures = 0
    /\ resolved = TRUE
    /\ ctxDone = FALSE
    /\ cancelAt = "never"
    /\ crdReady = TRUE
    /\ watches = 1
    /\ mgrStarted = TRUE
    /\ runResult = "nil"

\* the controllers in R run, the store holds records for the keys in K
InitOf(R, K) ==
    /\ leader \in R \cup {NoLeader}
    /\ records \in [Keys -> UNION {InitRecords(k) : k \in Keys}]
    /\ \A k \in K : records[k] \in InitRecords(k)
    /\ \A k \in Keys \ K : records[k] = ZeroChart
    /\ now = 0
    /\ envSteps = 0
    /\ WorkersIdle
    /\ RunHasStarted
    /\ SyncIdle([storage |-> "external_storage", helm |-> NilHelm])

\* ----------------------------------------------------- external collaborators
\* the watch: a create, delete or generation-changing update of record k reaches
\* every replica's dispatch layer, which puts the key in its queue
AfterEvent(q, k) == [r \in Replicas |-> q[r] \cup {k}]

\* the dispatch layer takes back the key of an attempt that returned an error
\* or Result{Requeue: true}
AfterReturn(q, r, k, again) == IF again THEN [q EXCEPT ![r] = @ \cup {k}] ELSE q

\* LeaderElector.IsLeader()
IsLeader(r) == leader = r

\* the elector hands leadership to another replica, or to nobody
Handover(l) ==
    /\ l # leader
    /\ leader' = l
    /\ lostLead' = [r \in Replicas |->
                      lostLead[r] \/ (pc[r] # "idle" /\ leader = r)]
    /\ UNCHANGED <<queue, syncVars, installs, storeVars, runVars, pc, req, chart, seen, helmResult,
                   sawLeader, rel, calls, writes, result>>

\* the synchronizer's manifest is applied again with a changed spec
UpdateSpec(k, sp) ==
    /\ envSteps < MaxEnv
    /\ records[k].exists
    /\ sp \in SpecsOf(k)
    /\ sp # records[k].spec
    /\ records' = [records EXCEPT ![k].spec = sp, ![k].rv = @ + 1]
    /\ envSteps' = envSteps + 1
    /\ queue' = AfterEvent(queue, k)
    /\ UNCHANGED <<leader, syncVars, now, workerVars, runVars>>

\* a client deletes the record: the store sets the deletion timestamp and keeps
\* the object while it carries a finalizer
MarkDeleted(k) ==
    /\ envSteps < MaxEnv
    /\ records[k].exists
    /\ ~records[k].deleting
    /\ records' = [records EXCEPT ![k] =
                     IF @.finalizers = {} THEN ZeroChart
                     ELSE [@ EXCEPT !.deleting = TRUE, !.rv = @ + 1]]
    /\ envSteps' = envSteps + 1
    /\ queue' = AfterEvent(queue, k)
    /\ UNCHANGED <<leader, syncVars, now, workerVars, runVars>>

\* ------------------------------------------------------------ record store
\* client.Get: the stored object, or NotFound when the key holds none
StoreHas(k) == records[k].exists

\* optimistic concurrency: a write made from a copy the store has moved past,
\* or for an object that is gone, is refused
Fresh(c, k) == records[k].exists /\ records[k].rv = c.rv

\* client.Update(obj): metadata and spec of the copy replace the stored ones;
\* an object marked for deletion that loses its last finalizer is removed
StoreAfterUpdate(c, k) ==
    IF records[k].deleting /\ c.finalizers = {}
    THEN [records EXCEPT ![k] = ZeroChart]
    ELSE [records EXCEPT ![k].finalizers = c.finalizers, ![k].spec = c.spec,
                         ![k].rv = @ + 1]

\* client.Status().Update(obj): only the status of the copy is stored
StoreAfterStatusUpdate(c, k) ==
    [records EXCEPT ![k].status = c.status, ![k].rv = @ + 1]

\* --------------------------------------------------------- ChartReconciler
\* if !chartInstance.ObjectMeta.DeletionTimestamp.IsZero()
MarkedForDeletion(c) == c.deleting

\* (mutant) the test of the release name the other way round
IsNewRelease_Inverted(c) == c.status.releaseName # ""

\* if chart.Status.ReleaseName == ""
IsNewRelease(c) == c.status.releaseName = ""

\* (mutant) the namespace the spec asks for instead of the one the release is in
UninstallArgs_FromSpec(c) ==
    [op |-> "uninstall", chartName |-> NA, version |-> NA,
     releaseName |-> c.status.releaseName, namespace |-> c.spec.namespace,
     values |-> NA]

\* cr.helm.UninstallRelease(chart.Status.ReleaseName, chart.Status.Namespace)
UninstallArgs(c) ==
    [op |-> "uninstall", chartName |-> NA, version |-> NA,
     releaseName |-> c.status.releaseName, namespace |-> c.status.namespace,
     values |-> NA]

\* cr.helm.InstallChart(Spec.ChartName, Spec.Version, Spec.Namespace, Spec.YamlValues())
InstallArgs(c) ==
    [op |-> "install", chartName |-> c.spec.chartName, version |-> c.spec.version,
     releaseName |-> NA, namespace |-> c.spec.namespace,
     values |-> YamlValues(c.spec.values)]

\* cr.helm.UpgradeChart(Spec.ChartName, Status.Version, Status.ReleaseName,
\*                      Status.Namespace, Spec.YamlValues())
UpgradeArgs(c) ==
    [op |-> "upgrade", chartName |-> c.spec.chartName, version |-> c.status.version,
     releaseName |-> c.status.releaseName, namespace |-> c.status.namespace,
     values |-> YamlValues(c.spec.values)]

\* (mutant) the error of an earlier attempt is left in place
StatusFromRelease_KeepsError(c, release, t) ==
    [c.status EXCEPT !.releaseName = release.name,
                     !.version = release.version,
                     !.appVersion = release.appVersion,
                     !.updated = t,
                     !.revision = release.revision,
                     !.namespace = release.namespace]

\* (mutant) the desired version and namespace recorded instead of the observed
StatusFromRelease_FromSpec(c, release, t) ==
    [c.status EXCEPT !.releaseName = release.name,
                     !.version = c.spec.version,
                     !.appVersion = release.appVersion,
                     !.updated = t,
                     !.revision = release.revision,
                     !.namespace = c.spec.namespace,
                     !.error = ""]

\* the status the reconciler computes from the returned release at time t
StatusFromRelease(c, release, t) ==
    [c.status EXCEPT !.releaseName = release.name,
                     !.version = release.version,
                     !.appVersion = release.appVersion,
                     !.updated = t,
                     !.revision = release.revision,
                     !.namespace = release.namespace,
                     !.error = ""]

\* controllerutil.RemoveFinalizer(&chartInstance, finalizerName)
RemoveFinalizer(c) == [c EXCEPT !.finalizers = @ \ {finalizerName}]

\* the package-manager call the fetched record leads to
CallFor(c) ==
    IF MarkedForDeletion(c) THEN UninstallArgs(c)
    ELSE IF IsNewRelease(c) THEN InstallArgs(c)
    ELSE UpgradeArgs(c)

\* (mutant) no leader check
PassesLeaderGate_Always(r) == TRUE

\* (mutant) the answer of the previous attempt is kept
PassesLeaderGate_Cached(r) == sawLeader[r] \/ IsLeader(r)

\* what the first line of Reconcile lets through
PassesLeaderGate(r) == IsLeader(r)

\* the attempt of replica r returns
Return(r, isErr, requeue, why) ==
    /\ pc' = [pc EXCEPT ![r] = "idle"]
    /\ result' = [result EXCEPT ![r] = Returned(isErr, requeue, why)]

\* the dispatch layer hands a queued key to the worker: Reconcile is entered; a
\* replica that is not the leader returns at once
Reconcile(r, k) ==
    /\ pc[r] = "idle"
    /\ k \in queue[r]
    /\ now < MaxTime
    /\ queue' = [queue EXCEPT ![r] = @ \ {k}]
    /\ now' = now + 1
    /\ req' = [req EXCEPT ![r] = k]
    /\ chart' = [chart EXCEPT ![r] = ZeroChart]
    /\ seen' = [seen EXCEPT ![r] = ZeroChart]
    /\ helmResult' = [helmResult EXCEPT ![r] = "none"]
    /\ rel' = [rel EXCEPT ![r] = NoRelease]
    /\ calls' = [calls EXCEPT ![r] = <<>>]
    /\ writes' = [writes EXCEPT ![r] = <<>>]
    /\ sawLeader' = [sawLeader EXCEPT ![r] = IsLeader(r)]
    /\ lostLead' = [lostLead EXCEPT ![r] = FALSE]
    /\ IF PassesLeaderGate(r)
       THEN /\ pc' = [pc EXCEPT ![r] = "get"]
            /\ result' = [result EXCEPT ![r] = NotReturned]
       ELSE Return(r, FALSE, FALSE, "not leader")
    /\ UNCHANGED <<leader, syncVars, installs, records, envSteps, runVars>>

\* cr.Client.Get fails with an error other than NotFound
GetFails(r) ==
    /\ pc[r] = "get"
    /\ Return(r, TRUE, FALSE, "get failed")
    /\ queue' = AfterReturn(queue, r, req[r], TRUE)
    /\ UNCHANGED <<leader, syncVars, installs, storeVars, runVars, req, chart, seen, helmResult,
                   sawLeader, lostLead, rel, calls, writes>>

\* cr.Client.Get answers NotFound
GetNotFound(r) ==
    /\ pc[r] = "get"
    /\ ~StoreHas(req[r])
    /\ Return(r, FALSE, FALSE, "not found")
    /\ queue' = AfterReturn(queue, r, req[r], FALSE)
    /\ UNCHANGED <<leader, syncVars, installs, storeVars, runVars, req, chart, seen, helmResult,
                   sawLeader, lostLead, rel, calls, writes>>

\* cr.Client.Get fills chartInstance; the worker then enters the package-manager
\* call its branch makes and waits for it
Get(r) ==
    /\ pc[r] = "get"
    /\ StoreHas(req[r])
    /\ chart' = [chart EXCEPT ![r] = records[req[r]]]
    /\ seen' = [seen EXCEPT ![r] = records[req[r]]]
    /\ calls' = [calls EXCEPT ![r] = Append(@, CallFor(records[req[r]]))]
    /\ helmResult' = [helmResult EXCEPT ![r] = "pending"]
    /\ pc' = [pc EXCEPT ![r] = CallFor(records[req[r]]).op]
    /\ UNCHANGED <<leader, queue, syncVars, installs, storeVars, runVars, req, sawLeader, lostLead, rel,
                   writes, result>>

\* (mutant) the error of uninstall is logged and dropped
UninstallFails_Swallowed(r) ==
    /\ pc[r] = "uninstall"
    /\ helmResult' = [helmResult EXCEPT ![r] = "failed"]
    /\ Return(r, FALSE, FALSE, "uninstall failed")
    /\ queue' = AfterReturn(queue, r, req[r], FALSE)
    /\ UNCHANGED <<leader, syncVars, installs, storeVars, runVars, req, chart, seen,
                   sawLeader, lostLead, rel, calls, writes>>

\* uninstall returns an error
UninstallFails(r) ==
    /\ pc[r] = "uninstall"
    /\ helmResult' = [helmResult EXCEPT ![r] = "failed"]
    /\ Return(r, TRUE, FALSE, "uninstall failed")
    /\ queue' = AfterReturn(queue, r, req[r], TRUE)
    /\ UNCHANGED <<leader, syncVars, installs, storeVars, runVars, req, chart, seen, sawLeader, lostLead,
                   rel, calls, writes>>

\* uninstall returns nil: the finalizer is taken off the copy, Update is next
UninstallOk(r) ==
    /\ pc[r] = "uninstall"
    /\ helmResult' = [helmResult EXCEPT ![r] = "ok"]
    /\ chart' = [chart EXCEPT ![r] = RemoveFinalizer(@)]
    /\ pc' = [pc EXCEPT ![r] = "update"]
    /\ UNCHANGED <<leader, queue, syncVars, installs, storeVars, runVars, req, seen, sawLeader, lostLead, rel,
                   calls, writes, result>>

\* cr.Client.Update is refused (conflict, not found, transport)
UpdateFails(r) ==
    /\ pc[r] = "update"
    /\ Return(r, TRUE, FALSE, "update failed")
    /\ queue' = AfterReturn(queue, r, req[r], TRUE)
    /\ UNCHANGED <<leader, syncVars, installs, storeVars, runVars, req, chart, seen, helmResult,
                   sawLeader, lostLead, rel, calls, writes>>

\* cr.Client.Update stores the copy without the finalizer
UpdateOk(r) ==
    /\ pc[r] = "update"
    /\ Fresh(chart[r], req[r])
    /\ records' = StoreAfterUpdate(chart[r], req[r])
    /\ writes' = [writes EXCEPT ![r] =
                    Append(@, [kind |-> "update", finalizers |-> chart[r].finalizers,
                               status |-> chart[r].status])]
    /\ Return(r, FALSE, FALSE, "uninstalled")
    /\ queue' = IF StoreAfterUpdate(chart[r], req[r])[req[r]].exists
                THEN queue
                ELSE AfterEvent(queue, req[r])
    /\ UNCHANGED <<leader, syncVars, installs, now, envSteps, runVars, req, chart, seen, helmResult,
                   sawLeader, lostLead, rel, calls>>

\* (mutant) the failure is recorded in the stored status
HelmFails_WritesError(r) ==
    /\ pc[r] \in {"install", "upgrade"}
    /\ Fresh(chart[r], req[r])
    /\ helmResult' = [helmResult EXCEPT ![r] = "failed"]
    /\ chart' = [chart EXCEPT ![r].status.error = pc[r] \o " failed"]
    /\ records' = [records EXCEPT ![req[r]].status.error = pc[r] \o " failed",
                                  ![req[r]].rv = @ + 1]
    /\ Return(r, TRUE, TRUE, pc[r] \o " failed")
    /\ queue' = AfterReturn(queue, r, req[r], TRUE)
    /\ UNCHANGED <<leader, syncVars, installs, now, envSteps, runVars, req, seen, sawLeader, lostLead,
                   rel, calls, writes>>

\* InstallChart / UpgradeChart returns an error
HelmFails(r) ==
    /\ pc[r] \in {"install", "upgrade"}
    /\ helmResult' = [helmResult EXCEPT ![r] = "failed"]
    /\ Return(r, TRUE, TRUE, pc[r] \o " failed")
    /\ queue' = AfterReturn(queue, r, req[r], TRUE)
    /\ UNCHANGED <<leader, syncVars, installs, storeVars, runVars, req, chart, seen, sawLeader, lostLead,
                   rel, calls, writes>>

\* InstallChart / UpgradeChart returns a release: the copy's status is filled
\* from it, Status().Update is next
HelmOk(r, release) ==
    /\ pc[r] \in {"install", "upgrade"}
    /\ helmResult' = [helmResult EXCEPT ![r] = "ok"]
    /\ rel' = [rel EXCEPT ![r] = release]
    /\ chart' = [chart EXCEPT ![r].status = StatusFromRelease(chart[r], release, now)]
    /\ installs' = [installs EXCEPT ![req[r]] =
                       IF pc[r] = "install" THEN @ + 1 ELSE @]
    /\ pc' = [pc EXCEPT ![r] = "statusUpdate"]
    /\ UNCHANGED <<leader, queue, syncVars, storeVars, runVars, req, seen, sawLeader, lostLead, calls,
                   writes, result>>

\* (mutant) the error of Status().Update is logged and dropped
StatusUpdateFails_Swallowed(r) ==
    /\ pc[r] = "statusUpdate"
    /\ Return(r, FALSE, FALSE, "status update failed")
    /\ queue' = AfterReturn(queue, r, req[r], FALSE)
    /\ UNCHANGED <<leader, syncVars, installs, storeVars, runVars, req, chart, seen,
                   helmResult, sawLeader, lostLead, rel, calls, writes>>

\* cr.Client.Status().Update is refused
StatusUpdateFails(r) ==
    /\ pc[r] = "statusUpdate"
    /\ Return(r, TRUE, TRUE, "status update failed")
    /\ queue' = AfterReturn(queue, r, req[r], TRUE)
    /\ UNCHANGED <<leader, syncVars, installs, storeVars, runVars, req, chart, seen, helmResult,
                   sawLeader, lostLead, rel, calls, writes>>

\* (mutant) the status is written to every record of the namespace
StatusUpdateOk_AllRecords(r) ==
    /\ pc[r] = "statusUpdate"
    /\ Fresh(chart[r], req[r])
    /\ records' = [k \in Keys |->
                     IF records[k].exists
                     THEN [records[k] EXCEPT !.status = chart[r].status, !.rv = @ + 1]
                     ELSE records[k]]
    /\ writes' = [writes EXCEPT ![r] =
                    Append(@, [kind |-> "status", finalizers |-> chart[r].finalizers,
                               status |-> chart[r].status])]
    /\ Return(r, FALSE, FALSE, "reconciled")
    /\ queue' = AfterReturn(queue, r, req[r], FALSE)
    /\ UNCHANGED <<leader, syncVars, installs, now, envSteps, runVars, req, chart, seen,
                   helmResult, sawLeader, lostLead, rel, calls>>

\* cr.Client.Status().Update stores the copy's status
StatusUpdateOk(r) ==
    /\ pc[r] = "statusUpdate"
    /\ Fresh(chart[r], req[r])
    /\ records' = StoreAfterStatusUpdate(chart[r], req[r])
    /\ writes' = [writes EXCEPT ![r] =
                    Append(@, [kind |-> "status", finalizers |-> chart[r].finalizers,
                               status |-> chart[r].status])]
    /\ Return(r, FALSE, FALSE, "reconciled")
    /\ queue' = AfterReturn(queue, r, req[r], FALSE)
    /\ UNCHANGED <<leader, syncVars, installs, now, envSteps, runVars, req, chart, seen, helmResult,
                   sawLeader, lostLead, rel, calls>>

\* the controllers in R reconcile the keys in K
NextOf(R, K) ==
    \/ \E l \in R \cup {NoLeader} : Handover(l)
    \/ \E k \in K : \E sp \in SpecsOf(k) : UpdateSpec(k, sp)
    \/ \E k \in K : MarkDeleted(k)
    \/ \E r \in R : \E k \in K : Reconcile(r, k)
    \/ \E r \in R : GetFails(r)
    \/ \E r \in R : GetNotFound(r)
    \/ \E r \in R : Get(r)
    \/ \E r \in R : UninstallFails(r)
    \/ \E r \in R : UninstallOk(r)
    \/ \E r \in R : UpdateFails(r)
    \/ \E r \in R : UpdateOk(r)
    \/ \E r \in R : HelmFails(r)
    \/ \E r \in R : \E release \in Releases : HelmOk(r, release)
    \/ \E r \in R : StatusUpdateFails(r)
    \/ \E r \in R : StatusUpdateOk(r)

\* two controller replicas reconcile the record of chart foo
Init == InitOf(Replicas, {"k0s-addon-chart-foo"})
Next == NextOf(Replicas, {"k0s-addon-chart-foo"})
Spec == Init /\ [][Next]_vars

\* a record an earlier run installed release "foo" for, its spec changed since
ReleasedRecord(k) ==
    [chartCrdTemplate(k, SecondSpec(k)) EXCEPT
        !.status = StatusFromRelease(chartCrdTemplate(k, FirstSpec(k)),
                                     CHOOSE x \in Releases : x.revision = 1, 0),
        !.rv = 2]

\* such a record after a client deleted it
DeletingRecord(k) == [ReleasedRecord(k) EXCEPT !.deleting = TRUE, !.rv = 3]

\* the states the record of key k is in when two replicas take up two keys
KeyStates(k) ==
    IF k = "k0s-addon-chart-foo"
    THEN {chartCrdTemplate(k, FirstSpec(k)), ReleasedRecord(k), DeletingRecord(k)}
    ELSE {chartCrdTemplate(k, FirstSpec(k)), DeletingRecord(k)}

\* two controller replicas reconcile the records of two charts, each record
\* new, released or marked for deletion; no other client writes meanwhile
InitKeys ==
    /\ leader = "r1"
    /\ records \in [Keys -> UNION {KeyStates(k) : k \in Keys}]
    /\ \A k \in Keys : records[k] \in KeyStates(k)
    /\ now = 0
    /\ envSteps = 0
    /\ WorkersIdle
    /\ RunHasStarted
    /\ SyncIdle([storage |-> "external_storage", helm |-> NilHelm])

NextKeys ==
    \/ \E l \in Replicas \cup {NoLeader} : Handover(l)
    \/ \E r \in Replicas : \E k \in Keys : Reconcile(r, k)
    \/ \E r \in Replicas : GetFails(r)
    \/ \E r \in Replicas : GetNotFound(r)
    \/ \E r \in Replicas : Get(r)
    \/ \E r \in Replicas : UninstallFails(r)
    \/ \E r \in Replicas : UninstallOk(r)
    \/ \E r \in Replicas : UpdateFails(r)
    \/ \E r \in Replicas : UpdateOk(r)
    \/ \E r \in Replicas : HelmFails(r)
    \/ \E r \in Replicas : \E release \in Releases : HelmOk(r, release)
    \/ \E r \in Replicas : StatusUpdateFails(r)
    \/ \E r \in Replicas : StatusUpdateOk(r)

SpecKeys == InitKeys /\ [][NextKeys]_vars

\* ------------------------------------------------------------- convergence
\* the replica that stays leader, and the key whose record it converges
Steady == "r1"
LiveKey == "k0s-addon-chart-foo"

\* calls and writes fail only so often that the attempts still to be delivered
\* suffice: one for the record as it is, one for each write other clients
\* have yet to make
MayFail == MaxTime - now >= 1 + (MaxEnv - envSteps)

\* one replica is and stays the leader
InitLive ==
    /\ InitOf({Steady}, {LiveKey})
    /\ leader = Steady

\* a call or a write of the attempt in progress returns
CallReturns ==
    \/ MayFail /\ GetFails(Steady)
    \/ GetNotFound(Steady)
    \/ Get(Steady)
    \/ MayFail /\ UninstallFails(Steady)
    \/ UninstallOk(Steady)
    \/ (MayFail \/ ~Fresh(chart[Steady], req[Steady])) /\ UpdateFails(Steady)
    \/ UpdateOk(Steady)
    \/ MayFail /\ HelmFails(Steady)
    \/ \E release \in Releases : HelmOk(Steady, release)
    \/ (MayFail \/ ~Fresh(chart[Steady], req[Steady])) /\ StatusUpdateFails(Steady)
    \/ StatusUpdateOk(Steady)

NextLive ==
    \/ \E sp \in SpecsOf(LiveKey) : UpdateSpec(LiveKey, sp)
    \/ MarkDeleted(LiveKey)
    \/ Reconcile(Steady, LiveKey)
    \/ CallReturns

\* the dispatch layer hands every queued key to the worker, and every call the
\* worker makes returns
SpecLive ==
    /\ InitLive
    /\ [][NextLive]_vars
    /\ WF_vars(Reconcile(Steady, LiveKey))
    /\ WF_vars(CallReturns)

\* --------------------------------------------------- ExtensionsController.Run
\* retry.Do is given retry.Context(ctx) and no retry.Attempts option, so it
\* runs with retry-go's default number of attempts (DefaultAttempts = uint(10))
DefaultAttempts == 10

\* (mutant) retry.Do without retry.Context(ctx): it watches context.Background()
GateContextDone_Background == FALSE

\* the context retry.Do watches: retry.Context(ctx)
GateContextDone == ctxDone

\* retry.Do: "if this is last attempt - don't wait", n == config.attempts-1
LastAttempt == n = DefaultAttempts - 1

\* Run returns
RunReturns(what) ==
    /\ runPc' = "returned"
    /\ runResult' = what

\* clientcmd.BuildConfigFromFlags and manager.New succeed
BuildManagerOk ==
    /\ runPc = "build"
    /\ runPc' = "gate"
    /\ UNCHANGED <<leader, queue, syncVars, storeVars, workerVars, n, failures, resolved, ctxDone,
                   cancelAt, crdReady, watches, mgrStarted, runResult>>

\* clientcmd.BuildConfigFromFlags or manager.New fails
BuildManagerFails ==
    /\ runPc = "build"
    /\ RunReturns("error: build")
    /\ UNCHANGED <<leader, queue, syncVars, storeVars, workerVars, n, failures, resolved, ctxDone,
                   cancelAt, crdReady, watches, mgrStarted>>

\* retry.Do starts: a context that is already done ends it before any attempt
GateEnter ==
    /\ runPc = "gate"
    /\ IF GateContextDone
       THEN RunReturns("error: cancelled")
       ELSE runPc' = "resolve" /\ UNCHANGED runResult
    /\ UNCHANGED <<leader, queue, syncVars, storeVars, workerVars, n, failures, resolved, ctxDone,
                   cancelAt, crdReady, watches, mgrStarted>>

\* (mutant) the retried function answers nil where the resolution failed
ResolveFails_ReturnsNil ==
    /\ runPc = "resolve"
    /\ failures' = failures + 1
    /\ runPc' = "scheme"
    /\ UNCHANGED <<leader, queue, syncVars, storeVars, workerVars, n, resolved, ctxDone, cancelAt,
                   crdReady, watches, mgrStarted, runResult>>

\* RESTMapping fails: a warning is logged and the error goes to retry.Do, which
\* waits before the next attempt, or gives up after the last one
ResolveFails ==
    /\ runPc = "resolve"
    /\ failures' = failures + 1
    /\ IF LastAttempt
       THEN RunReturns("error: exhausted")
       ELSE runPc' = "backoff" /\ UNCHANGED runResult
    /\ UNCHANGED <<leader, queue, syncVars, storeVars, workerVars, n, resolved, ctxDone, cancelAt,
                   crdReady, watches, mgrStarted>>

\* RESTMapping finds the Chart kind: retry.Do returns nil
ResolveOk ==
    /\ runPc = "resolve"
    /\ crdReady
    /\ resolved' = TRUE
    /\ runPc' = "scheme"
    /\ UNCHANGED <<leader, queue, syncVars, storeVars, workerVars, n, failures, ctxDone, cancelAt,
                   crdReady, watches, mgrStarted, runResult>>

\* retry.Do's select: the delay timer fires first. A context that is done
\* before the timer fires wakes the select through its Done case instead
BackoffElapsed ==
    /\ runPc = "backoff"
    /\ ~GateContextDone
    /\ n' = n + 1
    /\ runPc' = "resolve"
    /\ UNCHANGED <<leader, queue, syncVars, storeVars, workerVars, failures, resolved, ctxDone,
                   cancelAt, crdReady, watches, mgrStarted, runResult>>

\* retry.Do's select: the context is done
BackoffCancelled ==
    /\ runPc = "backoff"
    /\ GateContextDone
    /\ RunReturns("error: cancelled")
    /\ UNCHANGED <<leader, queue, syncVars, storeVars, workerVars, n, failures, resolved, ctxDone,
                   cancelAt, crdReady, watches, mgrStarted>>

\* v1beta1.AddToScheme(mgr.GetScheme())
AddToSchemeOk ==
    /\ runPc = "scheme"
    /\ runPc' = "watch"
    /\ UNCHANGED <<leader, queue, syncVars, storeVars, workerVars, n, failures, resolved, ctxDone,
                   cancelAt, crdReady, watches, mgrStarted, runResult>>

AddToSchemeFails ==
    /\ runPc = "scheme"
    /\ RunReturns("error: scheme")
    /\ UNCHANGED <<leader, queue, syncVars, storeVars, workerVars, n, failures, resolved, ctxDone,
                   cancelAt, crdReady, watches, mgrStarted>>

\* builder.ControllerManagedBy(mgr).For(&v1beta1.Chart{}, ...).Complete(...)
\* registers the watch for Chart records
CompleteOk ==
    /\ runPc = "watch"
    /\ watches' = watches + 1
    /\ runPc' = "start"
    /\ UNCHANGED <<leader, queue, syncVars, storeVars, workerVars, n, failures, resolved, ctxDone,
                   cancelAt, crdReady, mgrStarted, runResult>>

CompleteFails ==
    /\ runPc = "watch"
    /\ RunReturns("error: builder")
    /\ UNCHANGED <<leader, queue, syncVars, storeVars, workerVars, n, failures, resolved, ctxDone,
                   cancelAt, crdReady, watches, mgrStarted>>

\* go func() { mgr.Start(ctx) }(); return nil
StartManager ==
    /\ runPc = "start"
    /\ mgrStarted' = TRUE
    /\ RunReturns("nil")
    /\ UNCHANGED <<leader, queue, syncVars, storeVars, workerVars, n, failures, resolved, ctxDone,
                   cancelAt, crdReady, watches>>

\* the governing context is cancelled
Cancel ==
    /\ ~ctxDone
    /\ ctxDone' = TRUE
    /\ cancelAt' = runPc
    /\ UNCHANGED <<leader, queue, syncVars, storeVars, workerVars, runPc, n, failures, resolved,
                   crdReady, watches, mgrStarted, runResult>>

\* the CRD registration reconciler gets the Chart CRD established
RegisterCRD ==
    /\ ~crdReady
    /\ crdReady' = TRUE
    /\ UNCHANGED <<leader, queue, syncVars, storeVars, workerVars, runPc, n, failures, resolved,
                   ctxDone, cancelAt, watches, mgrStarted, runResult>>

\* Run is called; no record exists yet and no request is delivered
InitRun ==
    /\ leader = NoLeader
    /\ records = [k \in Keys |-> ZeroChart]
    /\ now = 0
    /\ envSteps = 0
    /\ WorkersIdle
    /\ runPc = "build"
    /\ n = 0
    /\ failures = 0
    /\ resolved = FALSE
    /\ ctxDone = FALSE
    /\ cancelAt = "never"
    /\ crdReady \in BOOLEAN
    /\ watches = 0
    /\ mgrStarted = FALSE
    /\ runResult = "none"
    /\ SyncIdle([storage |-> "external_storage", helm |-> NilHelm])

NextRun ==
    \/ BuildManagerOk
    \/ BuildManagerFails
    \/ GateEnter
    \/ ResolveFails
    \/ ResolveOk
    \/ BackoffElapsed
    \/ BackoffCancelled
    \/ AddToSchemeOk
    \/ AddToSchemeFails
    \/ CompleteOk
    \/ CompleteFails
    \/ StartManager
    \/ Cancel
    \/ RegisterCRD

SpecRun == InitRun /\ [][NextRun]_vars

\* --------------------------------------------- ExtensionsController.Reconcile
\* addOpenEBSHelmExtension: the spec it returns
addOpenEBSHelmExtension(helmSpec) ==
    HelmExtensions(Append(helmSpec.repos, OpenEBSRepo),
                   Append(helmSpec.charts, OpenEBSChart))

\* addOpenEBSHelmExtension: the object the caller's pointer leads to after the
\* call. For nil it allocates a new object; otherwise it assigns the appended
\* lists to the fields of the object pointed to
CallerSpecAfter(helmSpec) ==
    IF helmSpec.nil THEN helmSpec ELSE addOpenEBSHelmExtension(helmSpec)

\* the switch on Storage.Type: helmSettings as handed to reconcileHelmExtensions
HelmSettingsOf(cfg) ==
    IF cfg.storage = OpenEBSLocal THEN addOpenEBSHelmExtension(cfg.helm) ELSE cfg.helm

\* the caller's configuration after the switch
ConfigAfter(cfg) ==
    IF cfg.storage = OpenEBSLocal
    THEN [cfg EXCEPT !.helm = CallerSpecAfter(@)]
    ELSE cfg

\* "addon_crd_manifest_"+chart.Name+".yaml"
FileOf(c) == "addon_crd_manifest_" \o c.name \o ".yaml"

\* the template executed with the chart's fields and the finalizer
Rendered(c) ==
    [file |-> FileOf(c),
     content |-> chartCrdTemplate("k0s-addon-chart-" \o c.name,
                                  [chartName |-> c.chartName, version |-> c.version,
                                   namespace |-> c.targetNS, values |-> c.values])]

\* (mutant) the chart loop runs before the repository loop
StageAt_ChartsFirst(hs, r, c) ==
    IF c <= Len(hs.charts) THEN "render"
    ELSE IF r <= Len(hs.repos) THEN "addRepo"
    ELSE "done"

\* the two loops of reconcileHelmExtensions: what comes next with r repositories
\* and c charts still to go from
StageAt(hs, r, c) ==
    IF r <= Len(hs.repos) THEN "addRepo"
    ELSE IF c <= Len(hs.charts) THEN "render"
    ELSE "done"

\* Reconcile returns
SyncReturn(isErr, kind, names) ==
    /\ syncPc' = "idle"
    /\ syncResult' = SyncReturned(isErr, kind, names)

\* the loops go on at positions r, c, or are through and Reconcile returns nil
SyncGoOn(hs, r, c) ==
    IF StageAt(hs, r, c) = "done"
    THEN SyncReturn(FALSE, "nil", {})
    ELSE syncPc' = StageAt(hs, r, c) /\ UNCHANGED syncResult

\* Reconcile is called with the configuration: the provisioner is injected if
\* the storage type asks for it, reconcileHelmExtensions is entered
ExtensionsReconcile ==
    /\ syncPc = "idle"
    /\ passes < MaxSync
    /\ passes' = passes + 1
    /\ helmSettings' = HelmSettingsOf(clusterConfig)
    /\ clusterConfig' = ConfigAfter(clusterConfig)
    /\ ri' = 1
    /\ ci' = 1
    /\ buf' = EmptyBuf
    /\ repoCalls' = <<>>
    /\ renders' = <<>>
    /\ saveCalls' = <<>>
    /\ IF \/ HelmSettingsOf(clusterConfig).nil
          \/ StageAt(HelmSettingsOf(clusterConfig), 1, 1) = "done"
       THEN SyncReturn(FALSE, "nil", {})
       ELSE /\ syncPc' = StageAt(HelmSettingsOf(clusterConfig), 1, 1)
            /\ syncResult' = SyncReturned(FALSE, "running", {})
    /\ UNCHANGED <<leader, queue, storeVars, workerVars, runVars, declared, repoStore,
                   manifests>>

\* (mutant) the message carries the repository's name, not its URL
AddRepoFails_NamesName ==
    /\ syncPc = "addRepo"
    /\ SyncReturn(TRUE, "can't init repository", {helmSettings.repos[ri].name})
    /\ UNCHANGED <<leader, queue, storeVars, workerVars, runVars, declared, clusterConfig,
                   helmSettings, ri, ci, buf, repoCalls, renders, saveCalls, repoStore,
                   manifests, passes>>

\* ec.addRepo(repo) fails
AddRepoFails ==
    /\ syncPc = "addRepo"
    /\ SyncReturn(TRUE, "can't init repository", {helmSettings.repos[ri].url})
    /\ UNCHANGED <<leader, queue, storeVars, workerVars, runVars, declared, clusterConfig,
                   helmSettings,
                   ri, ci, buf, repoCalls, renders, saveCalls, repoStore, manifests,
                   passes>>

\* ec.addRepo(repo) succeeds
AddRepoOk ==
    /\ syncPc = "addRepo"
    /\ repoStore' = repoStore \cup {helmSettings.repos[ri]}
    /\ repoCalls' = Append(repoCalls, helmSettings.repos[ri])
    /\ ri' = ri + 1
    /\ SyncGoOn(helmSettings, ri + 1, ci)
    /\ UNCHANGED <<leader, queue, storeVars, workerVars, runVars, declared, clusterConfig,
                   helmSettings,
                   ci, buf, renders, saveCalls, manifests, passes>>

\* tw.WriteToBuffer(buf) fails
RenderFails ==
    /\ syncPc = "render"
    /\ renders' = Append(renders, helmSettings.charts[ci])
    /\ SyncReturn(TRUE, "can't create chart CR instance",
                  {helmSettings.charts[ci].chartName})
    /\ UNCHANGED <<leader, queue, storeVars, workerVars, runVars, declared, clusterConfig,
                   helmSettings,
                   ri, ci, buf, repoCalls, saveCalls, repoStore, manifests, passes>>

\* tw.WriteToBuffer(buf) fills the buffer
RenderOk ==
    /\ syncPc = "render"
    /\ renders' = Append(renders, helmSettings.charts[ci])
    /\ buf' = Rendered(helmSettings.charts[ci])
    /\ syncPc' = "save"
    /\ UNCHANGED <<leader, queue, storeVars, workerVars, runVars, declared, clusterConfig,
                   helmSettings,
                   ri, ci, repoCalls, saveCalls, repoStore, manifests, passes,
                   syncResult>>

\* ec.saver.Save fails
SaveFails ==
    /\ syncPc = "save"
    /\ SyncReturn(TRUE, "can't save addon CRD manifest", {})
    /\ UNCHANGED <<leader, queue, storeVars, workerVars, runVars, declared, clusterConfig,
                   helmSettings,
                   ri, ci, buf, repoCalls, renders, saveCalls, repoStore, manifests,
                   passes>>

\* ec.saver.Save stores the buffer under the chart's file name
SaveOk ==
    /\ syncPc = "save"
    /\ manifests' = {m \in manifests : m.file # buf.file} \cup {buf}
    /\ saveCalls' = Append(saveCalls, buf)
    /\ ci' = ci + 1
    /\ SyncGoOn(helmSettings, ri, ci + 1)
    /\ UNCHANGED <<leader, queue, storeVars, workerVars, runVars, declared, clusterConfig,
                   helmSettings,
                   ri, buf, repoCalls, renders, repoStore, passes>>

\* the synchronizer is run on a configuration; no controller reconciles
InitSync ==
    /\ leader = NoLeader
    /\ records = [k \in Keys |-> ZeroChart]
    /\ now = 0
    /\ envSteps = 0
    /\ WorkersIdle
    /\ RunHasStarted
    /\ \E cfg \in ClusterConfigs : SyncIdle(cfg)

NextSync ==
    \/ ExtensionsReconcile
    \/ AddRepoFails
    \/ AddRepoOk
    \/ RenderFails
    \/ RenderOk
    \/ SaveFails
    \/ SaveOk

SpecSync == InitSync /\ [][NextSync]_vars


\* ------------------------------------------------------------------ claims
\* replica r has a package-manager call or a store write in progress or pending
Active(r) == pc[r] \in {"uninstall", "install", "upgrade", "update", "statusUpdate"}

\* the attempt of r fetched a record that is not marked for deletion
SawLive(r) == seen[r].exists /\ ~seen[r].deleting

\* the status fields a release decides
SameAsRelease(st, release) ==
    /\ st.releaseName = release.name
    /\ st.version = release.version
    /\ st.appVersion = release.appVersion
    /\ st.revision = release.revision
    /\ st.namespace = release.namespace

\* the store holds for r's key exactly what r's successful write left there
StoreAsWritten(r) ==
    /\ records[req[r]].exists
    /\ records[req[r]].rv = seen[r].rv + 1

\* C1: an attempt in which IsLeader() answered false makes no package-manager
\* call and no store write, whatever the state of the record, and returns no
\* error and no requeue
C1_NotLeaderNoOp ==
    \A r \in Replicas :
        ~sawLeader[r] =>
            /\ pc[r] = "idle"
            /\ calls[r] = <<>>
            /\ writes[r] = <<>>
            /\ ~result[r].err
            /\ ~result[r].requeue

C1_Witness ==
    \E r \in Replicas :
        /\ result[r].why = "not leader"
        /\ records[req[r]].exists
        /\ records[req[r]].deleting

\* C2: for a live record fetched with an empty status release name the one
\* package-manager call is install; an attempt that succeeds has written, and
\* the store then holds, a status with a release name and an empty error
C2_InstallWhenNoRelease ==
    \A r \in Replicas :
        (SawLive(r) /\ seen[r].status.releaseName = "") =>
            /\ Len(calls[r]) = 1
            /\ calls[r][1].op = "install"
            /\ result[r].why = "reconciled" =>
                 /\ Len(writes[r]) = 1
                 /\ writes[r][1].kind = "status"
                 /\ writes[r][1].status.releaseName # ""
                 /\ writes[r][1].status.error = ""
            /\ (result[r].why = "reconciled" /\ StoreAsWritten(r)) =>
                 /\ records[req[r]].status.releaseName # ""
                 /\ records[req[r]].status.error = ""

C2_Witness ==
    \E r \in Replicas :
        /\ SawLive(r)
        /\ seen[r].status.releaseName = ""
        /\ seen[r].status.error # ""
        /\ result[r].why = "reconciled"
        /\ records[req[r]].status.releaseName # ""
        /\ records[req[r]].status.error = ""

\* C3: for a live record fetched with a status release name the one
\* package-manager call is upgrade, whatever the spec holds
C3_UpgradeWhenReleased ==
    \A r \in Replicas :
        (SawLive(r) /\ seen[r].status.releaseName # "") =>
            /\ Len(calls[r]) = 1
            /\ calls[r][1].op = "upgrade"

C3_Witness ==
    \E r \in Replicas :
        /\ SawLive(r)
        /\ seen[r].status.releaseName # ""
        /\ seen[r].spec = SecondSpec(req[r])
        /\ calls[r][1].op = "upgrade"

\* C4: for a record fetched with the deletion marker the one package-manager
\* call is uninstall(status.releaseName, status.namespace); the finalizer leaves
\* the copy and the store only after that call returned success; after a failed
\* uninstall the attempt has written nothing and returns an error, so the
\* finalizer and the record stay
C4_UninstallBeforeFinalizerRemoval ==
    \A r \in Replicas :
        (seen[r].exists /\ seen[r].deleting) =>
            /\ Len(calls[r]) = 1
            /\ calls[r][1].op = "uninstall"
            /\ calls[r][1].releaseName = seen[r].status.releaseName
            /\ calls[r][1].namespace = seen[r].status.namespace
            /\ chart[r].finalizers # seen[r].finalizers => helmResult[r] = "ok"
            /\ writes[r] # <<>> =>
                 /\ helmResult[r] = "ok"
                 /\ Len(writes[r]) = 1
                 /\ writes[r][1].kind = "update"
                 /\ finalizerName \notin writes[r][1].finalizers
            /\ helmResult[r] = "failed" =>
                 /\ writes[r] = <<>>
                 /\ result[r].err
            /\ (helmResult[r] # "ok" /\ Fresh(seen[r], req[r])) =>
                 records[req[r]].finalizers = seen[r].finalizers

C4_Witness ==
    \E r \in Replicas :
        /\ seen[r].deleting
        /\ seen[r].status.releaseName = "foo"
        /\ finalizerName \in seen[r].finalizers
        /\ calls[r] = <<UninstallArgs(seen[r])>>
        /\ result[r].why = "uninstalled"
        /\ ~records[req[r]].exists

\* C5 (as claimed): an upgrade of a record whose spec version differs from its
\* status version is asked to deploy the spec version, and a successful attempt
\* leaves the spec version in status.version
C5_UpgradeTargetsSpecVersion ==
    \A r \in Replicas :
        (/\ calls[r] # <<>>
         /\ calls[r][1].op = "upgrade"
         /\ seen[r].spec.version # seen[r].status.version) =>
            /\ calls[r][1].version = seen[r].spec.version
            /\ result[r].why = "reconciled" =>
                 writes[r][1].status.version = seen[r].spec.version

\* an attempt whose package-manager call failed has returned an error, has
\* written nothing and has left its copy's status as fetched; while no other
\* client has written the record, the stored status is the fetched one
C6_FailedCallWritesNothing ==
    \A r \in Replicas :
        helmResult[r] = "failed" =>
            /\ pc[r] = "idle"
            /\ result[r].err
            /\ writes[r] = <<>>
            /\ chart[r].status = seen[r].status
            /\ Fresh(seen[r], req[r]) => records[req[r]].status = seen[r].status

\* the step in which the package-manager call fails leaves the store as it is
C6_FailedCallKeepsStore ==
    \A r \in Replicas :
        (helmResult[r] = "pending" /\ helmResult'[r] = "failed") => records' = records

\* C6: when install, upgrade or uninstall fails the attempt returns an error and
\* writes no status, partial or whole: the stored status stays, field for field,
\* what it was
C6_StatusKeptOnFailure ==
    [](C6_FailedCallWritesNothing) /\ [][C6_FailedCallKeepsStore]_vars

C6_Witness ==
    \E r \in Replicas :
        /\ helmResult[r] = "failed"
        /\ calls[r][1].op = "upgrade"
        /\ seen[r].status.releaseName # ""
        /\ records[req[r]].status = seen[r].status

\* C7: after a successful install or upgrade the copy's releaseName, version,
\* appVersion, revision and namespace are those of the returned release; they
\* reach the store in the attempt's single write, a status write
C7_StatusFromRelease ==
    \A r \in Replicas :
        /\ (pc[r] = "statusUpdate" \/ result[r].why = "reconciled") =>
             /\ helmResult[r] = "ok"
             /\ SameAsRelease(chart[r].status, rel[r])
        /\ pc[r] \in {"install", "upgrade", "statusUpdate"} => writes[r] = <<>>
        /\ result[r].why = "reconciled" =>
             /\ Len(writes[r]) = 1
             /\ writes[r][1].kind = "status"
             /\ SameAsRelease(writes[r][1].status, rel[r])
        /\ (result[r].why = "reconciled" /\ StoreAsWritten(r)) =>
             SameAsRelease(records[req[r]].status, rel[r])

C7_Witness ==
    \E r \in Replicas :
        /\ result[r].why = "reconciled"
        /\ rel[r].version # seen[r].spec.version
        /\ rel[r].namespace # seen[r].spec.namespace
        /\ StoreAsWritten(r)
        /\ SameAsRelease(records[req[r]].status, rel[r])

\* C10 (as claimed): never two replicas with a call or write in progress
C10_AtMostOneActive ==
    Cardinality({r \in Replicas : Active(r)}) <= 1

\* C10 (amended): a replica is inside an attempt past the first line only if
\* IsLeader() answered true there; unless leadership left it since, it still is
\* the leader; two replicas are active together only if leadership left one of
\* them during its attempt
C10_ActiveOnlyAfterLeaderCheck ==
    /\ \A r \in Replicas :
         pc[r] # "idle" => (sawLeader[r] /\ (lostLead[r] \/ IsLeader(r)))
    /\ \A r1, r2 \in Replicas :
         (r1 # r2 /\ Active(r1) /\ Active(r2)) => (lostLead[r1] \/ lostLead[r2])

C10_Witness ==
    \E r1, r2 \in Replicas :
        /\ r1 # r2
        /\ Active(r1)
        /\ Active(r2)
        /\ lostLead[r1]
        /\ IsLeader(r2)

C9_CancelInGateStopsRun ==
    cancelAt \in {"gate", "resolve", "backoff"} =>
        /\ watches = 0
        /\ ~mgrStarted
        /\ runResult # "nil"

\* C9 (amended): a Run that returns the gate's cancellation error has
\* registered and started nothing; a cancellation that comes before the gate or
\* during a backoff wait is always observed: no resolution is begun after it and
\* nothing is registered or started; a cancellation that comes while a
\* resolution is in flight is observed only if that resolution fails
C9_ObservedCancelStopsRun ==
    /\ runResult = "error: cancelled" =>
         (ctxDone /\ ~resolved /\ watches = 0 /\ ~mgrStarted)
    /\ cancelAt \in {"build", "gate", "backoff"} =>
         /\ runPc \in {"build", "gate", "backoff", "returned"}
         /\ runResult \in {"none", "error: build", "error: cancelled"}
         /\ ~resolved
         /\ watches = 0
         /\ ~mgrStarted
    /\ (cancelAt = "resolve" /\ ~resolved) =>
         /\ runPc \in {"resolve", "backoff", "returned"}
         /\ runResult \in {"none", "error: cancelled", "error: exhausted"}
         /\ watches = 0
         /\ ~mgrStarted

C9_Witness ==
    /\ runResult = "error: cancelled"
    /\ cancelAt = "backoff"
    /\ failures >= 1
    /\ crdReady

\* no attempt for key k is between Get and its return
AtRest(k) == \A r \in Replicas : pc[r] # "idle" => req[r] # k

\* C11 (as claimed): whenever no attempt for a record is in progress and its
\* status release name is empty, no InstallChart call for it has ever returned
\* a release
C11_EmptyNameNeverInstalled ==
    \A k \in Keys :
        (records[k].exists /\ AtRest(k) /\ records[k].status.releaseName = "") =>
            installs[k] = 0

\* C12 (as claimed): a record for which install is called carries the finalizer
\* when the call is made, however the record was created
C12_InstallOnlyWithFinalizer ==
    \A r \in Replicas :
        (calls[r] # <<>> /\ calls[r][1].op = "install") =>
            finalizerName \in seen[r].finalizers

\* how often x occurs in the sequence q
Count(q, x) == Cardinality({p \in DOMAIN q : q[p] = x})

\* every element of the sequence q occurs in the sequence w
Within(q, w) == \A p \in DOMAIN q : \E m \in DOMAIN w : w[m] = q[p]

\* C13 (as claimed): with the provisioner's storage type the spec being
\* synchronized holds every declared repository and chart and the provisioner's
\* repository and chart exactly once each, in every pass over the same
\* configuration
C13_AugmentOnce ==
    (declared.storage = OpenEBSLocal /\ passes >= 1) =>
        /\ Within(declared.helm.repos, helmSettings.repos)
        /\ Within(declared.helm.charts, helmSettings.charts)
        /\ Count(helmSettings.repos, OpenEBSRepo) = 1
        /\ Count(helmSettings.charts, OpenEBSChart) = 1

\* C14 (as claimed): no step of Reconcile changes the configuration object the
\* caller passed, whether its helm spec is nil or not
C14_ConfigUntouched == [][clusterConfig' = clusterConfig]_vars

\* C15: when adding the repository at position ri fails, Reconcile returns an
\* error that carries that repository's URL; the repositories before it were
\* added, in order, and stay with the package manager; no repository after it
\* is added and no manifest is rendered or saved in this pass
C15_RepoFailureStops ==
    syncResult.kind = "can't init repository" =>
        /\ syncPc = "idle"
        /\ syncResult.err
        /\ ri \in DOMAIN helmSettings.repos
        /\ syncResult.names = {helmSettings.repos[ri].url}
        /\ repoCalls = SubSeq(helmSettings.repos, 1, ri - 1)
        /\ \A p \in 1..(ri - 1) : helmSettings.repos[p] \in repoStore
        /\ renders = <<>>
        /\ saveCalls = <<>>

C15_Witness ==
    /\ syncResult.kind = "can't init repository"
    /\ ri = 2
    /\ Len(helmSettings.repos) = 3
    /\ helmSettings.repos[1] # helmSettings.repos[2]
    /\ helmSettings.charts # <<>>
    /\ helmSettings.repos[1] \in repoStore
    /\ helmSettings.repos[3] \notin repoStore

\* C16 (as claimed): when rendering or saving the manifest of the chart at
\* position ci fails, Reconcile returns an error that carries that chart's name,
\* after a failed render and after a failed save alike; the manifests of the
\* charts before it were saved and stay saved, no later chart is rendered
C16_ChartFailureNamesChart ==
    syncResult.kind \in {"can't create chart CR instance",
                         "can't save addon CRD manifest"} =>
        /\ syncPc = "idle"
        /\ syncResult.err
        /\ ci \in DOMAIN helmSettings.charts
        /\ \/ helmSettings.charts[ci].chartName \in syncResult.names
           \/ helmSettings.charts[ci].name \in syncResult.names
        /\ renders = SubSeq(helmSettings.charts, 1, ci)
        /\ Len(saveCalls) = ci - 1
        /\ \A p \in DOMAIN saveCalls : saveCalls[p] \in manifests

\* C20: in a pass every declared repository has been added, in declaration
\* order, before the first manifest is rendered or saved; manifests are saved in
\* declaration order, one per declared chart; a pass that returns nil has added
\* every repository and saved one manifest per declared chart
C20_ReposThenManifestsInOrder ==
    passes >= 1 =>
        /\ repoCalls = SubSeq(helmSettings.repos, 1, Len(repoCalls))
        /\ \A p \in DOMAIN repoCalls : repoCalls[p] \in repoStore
        /\ (renders # <<>> \/ saveCalls # <<>>) => repoCalls = helmSettings.repos
        /\ Len(saveCalls) <= Len(helmSettings.charts)
        /\ \A p \in DOMAIN saveCalls : saveCalls[p] = Rendered(helmSettings.charts[p])
        /\ \A p \in DOMAIN saveCalls : saveCalls[p] \in manifests
        /\ (syncPc = "idle" /\ ~syncResult.err) =>
             /\ repoCalls = helmSettings.repos
             /\ Len(saveCalls) = Len(helmSettings.charts)

C20_Witness ==
    /\ syncPc = "idle"
    /\ syncResult.kind = "nil"
    /\ Len(helmSettings.repos) >= 2
    /\ Len(helmSettings.charts) >= 2
    /\ helmSettings.charts[1] # helmSettings.charts[2]
    /\ Len(saveCalls) = Len(helmSettings.charts)
    /\ Cardinality(manifests) >= 2

\* what the worker of replica r holds of its attempt
Locals(r) == <<pc[r], req[r], chart[r], seen[r], calls[r], writes[r], result[r]>>

\* an attempt reads the record of its own key, and its package-manager call is
\* made from what it read there: the chart of that record, the release its
\* status names
C17_ReadsAndCallsOwn ==
    \A r \in Replicas :
        /\ seen[r].exists => seen[r].spec.chartName = ChartNameOf(req[r])
        /\ calls[r] # <<>> =>
             /\ Len(calls[r]) = 1
             /\ calls[r][1] = CallFor(seen[r])
             /\ calls[r][1].chartName \in {NA, ChartNameOf(req[r])}
             /\ calls[r][1].releaseName \in {NA, seen[r].status.releaseName}

\* a step of the worker of replica r fetches the stored record of its key, and
\* leaves the record of every other key and the attempt of every other worker
\* as they are
C17_StepTouchesOwnOnly ==
    \A r \in Replicas :
        Locals(r)' # Locals(r) =>
            /\ seen'[r] # seen[r] => (seen'[r] = ZeroChart \/ seen'[r] = records[req[r]])
            /\ \A k \in Keys \ {req'[r]} : records'[k] = records[k]
            /\ \A o \in Replicas \ {r} : Locals(o)' = Locals(o)

\* C17: an attempt for key K reads and writes only record K and calls the
\* package manager only for K's chart and release; spec, status and finalizers
\* of every other record are unchanged by it, and so is every other attempt
C17_OnlyOwnRecord == [](C17_ReadsAndCallsOwn) /\ [][C17_StepTouchesOwnOnly]_vars

\* an attempt for one key fails while an attempt for another key, begun by
\* another replica meanwhile, succeeds
C17_Witness ==
    \E r1, r2 \in Replicas :
        /\ r1 # r2
        /\ req[r1] # req[r2]
        /\ helmResult[r1] = "failed"
        /\ result[r1].err
        /\ lostLead[r1]
        /\ result[r2].why = "reconciled"
        /\ StoreAsWritten(r2)
        /\ records[req[r1]] = seen[r1]

\* the attempt of r ended because its package-manager call or the store write
\* after it failed
FailedAttempt(r) ==
    /\ pc[r] = "idle"
    /\ \/ helmResult[r] = "failed"
       \/ result[r].why \in {"update failed", "status update failed"}

\* C18: an attempt makes at most one package-manager call; when that call or the
\* write after it fails, on the install/upgrade path and on the uninstall path
\* alike, the attempt returns an error, has made that one call and no other, and
\* the dispatch layer has the key queued again
C18_OneCallErrorRequeues ==
    \A r \in Replicas :
        /\ Len(calls[r]) <= 1
        /\ FailedAttempt(r) =>
             /\ result[r].err
             /\ Len(calls[r]) = 1
             /\ req[r] \in queue[r]
        /\ (FailedAttempt(r) /\ helmResult[r] = "failed") => writes[r] = <<>>

C18_Witness ==
    \E r \in Replicas :
        /\ FailedAttempt(r)
        /\ calls[r][1].op = "uninstall"
        /\ result[r].why = "update failed"
        /\ ~result[r].requeue
        /\ result[r].err
        /\ req[r] \in queue[r]

\* the record of k is live / is live with a release name and no error in status
LiveRecord(k) == records[k].exists /\ ~records[k].deleting
Converged(k) ==
    /\ LiveRecord(k)
    /\ records[k].status.releaseName # ""
    /\ records[k].status.error = ""

\* C19: while the replica stays leader, failed attempts are delivered again and
\* calls and writes fail only finitely often, a live record comes to hold a
\* status with a release name and no error, unless it is deleted first, and a
\* record marked for deletion loses its finalizer and is removed
C19_Converges ==
    /\ LiveRecord(LiveKey) ~> (Converged(LiveKey) \/ ~LiveRecord(LiveKey))
    /\ (records[LiveKey].exists /\ records[LiveKey].deleting) ~> ~records[LiveKey].exists

C19_Witness ==
    /\ now >= 2
    /\ seen[Steady].status.error # ""
    /\ result[Steady].why = "reconciled"
    /\ Converged(LiveKey)

====
